---- MODULE Spec2Model ----
(***************************************************************************)
(* Password-method resolution, credential validation and session-cookie   *)
(* validation of src/node/util.ts (code-server), as a state machine of     *)
(* in-flight asynchronous calls, and the bounded-concurrency PromisePool   *)
(* of the same file.                                                       *)
(*                                                                         *)
(* A string is a sequence of one-character strings.  Three kinds of runs   *)
(* of characters are kept as one opaque element each: a salt, an argon2    *)
(* digest and a sha256 hex digest.  `undefined` is an absent optional.     *)
(***************************************************************************)
EXTENDS Naturals, Sequences, FiniteSets, TLC

VARIABLES calls, pool

vars == <<calls, pool>>

\* ------------------------------------------------------------------ bounds
\* Longest secret a caller submits or an operator configures.
MaxSecretLen == 2
\* Number of calls that may be in flight at once.
NumCalls == 2
\* Longest array and largest concurrency PromisePool is called with.
MaxItems == 3
MaxConcurrency == 3

Procs == 1..NumCalls

\* ----------------------------------------------------------------- strings
RECURSIVE Join(_)
Join(s) == IF s = <<>> THEN "" ELSE Head(s) \o Join(Tail(s))

RECURSIVE SeqsUpTo(_, _)
SeqsUpTo(alphabet, n) ==
  IF n = 0 THEN {<<>>}
  ELSE LET shorter == SeqsUpTo(alphabet, n - 1)
       IN  shorter \cup {Append(s, ch) : s \in shorter, ch \in alphabet}

\* String.prototype.startsWith
startsWith(s, prefix) ==
  /\ Len(s) >= Len(prefix)
  /\ SubSeq(s, 1, Len(prefix)) = prefix

\* String.prototype.includes: scan from the left for the first occurrence.
RECURSIVE includes(_, _)
includes(s, sub) ==
  IF Len(s) < Len(sub) THEN FALSE
  ELSE IF startsWith(s, sub) THEN TRUE
  ELSE includes(Tail(s), sub)

\* `string | undefined`
Undefined == [present |-> FALSE, val |-> <<>>]
Some(s) == [present |-> TRUE, val |-> s]

\* JavaScript truthiness of a `string | undefined`: undefined and "" are falsy.
Truthy(o) == o.present /\ o.val # <<>>

\* `o || ""`
OrEmpty(o) == IF Truthy(o) THEN o.val ELSE <<>>

\* A destructured parameter with the default `= ""`: only undefined is replaced.
DefaultEmpty(o) == IF o.present THEN o.val ELSE <<>>

\* ------------------------------------------------------ external primitives
\* safe-compare: true iff the two strings are equal (in constant time).
safeCompare(a, b) == a = b

\* The substring getPasswordMethod looks for.
ArgonMarker == <<"$", "a", "r", "g", "o", "n">>

\* The head of an encoded argon2 hash ("$argon2id"; the version and cost
\* fields are the library's defaults and are left out).
ArgonPrefix == <<"$", "a", "r", "g", "o", "n", "2", "i", "d">>

ArgonDigest(salt, password) == "argon2(" \o salt \o "," \o Join(password) \o ")"

\* argon2.hash(password) when it succeeds with the random salt `salt`.
argon2Hash(password, salt) ==
  ArgonPrefix \o <<"$", salt, "$", ArgonDigest(salt, password)>>

\* Whether argon2.verify can decode `h` as an encoded hash.
argon2Parses(h) ==
  /\ Len(h) = Len(ArgonPrefix) + 4
  /\ startsWith(h, ArgonPrefix)
  /\ h[Len(ArgonPrefix) + 1] = "$"
  /\ h[Len(ArgonPrefix) + 3] = "$"

Returned(b) == [threw |-> FALSE, value |-> b]
Thrown == [threw |-> TRUE, value |-> FALSE]

\* argon2.verify(hash, password): recomputes the digest under the salt the
\* hash embeds; rejects when the hash cannot be decoded.
argon2Verify(h, password) ==
  IF argon2Parses(h)
  THEN Returned(h[Len(h)] = ArgonDigest(h[Len(ArgonPrefix) + 2], password))
  ELSE Thrown

\* --------------------------------------------------------------- util.ts
\* Faulty variant: the candidate secret and the reference hash change places.
isHashMatchSwapped(password, h) ==
  IF password = <<>> \/ h = <<>> \/ ~startsWith(password, <<"$">>)
  THEN Returned(FALSE)
  ELSE argon2Verify(password, h)

\* Faulty variant: only the format of the hash is looked at.
isHashMatchFormatOnly(password, h) ==
  IF password = <<>> \/ h = <<>> \/ ~startsWith(h, <<"$">>)
  THEN Returned(FALSE)
  ELSE Returned(argon2Parses(h))

\* isHashMatch: an error of argon2.verify is rethrown.
isHashMatch(password, h) ==
  IF password = <<>> \/ h = <<>> \/ ~startsWith(h, <<"$">>)
  THEN Returned(FALSE)
  ELSE argon2Verify(h, password)

hashLegacy(str) == << "sha256(" \o Join(str) \o ")" >>

\* Faulty variant: the submitted secret is compared without being digested.
isHashLegacyMatchUndigested(password, hashPassword) ==
  safeCompare(password, hashPassword)

isHashLegacyMatch(password, hashPassword) ==
  LET hashedWithLegacy == hashLegacy(password)
  IN  safeCompare(hashedWithLegacy, hashPassword)

\* Faulty variant: the marker is looked for at the start of the string only.
getPasswordMethodPrefixOnly(hashedPassword) ==
  IF ~Truthy(hashedPassword) THEN "PLAIN_TEXT"
  ELSE IF startsWith(hashedPassword.val, ArgonMarker) THEN "ARGON2"
  ELSE "SHA256"

\* Faulty variant: only undefined, not "", counts as no configured hash.
getPasswordMethodDefinedOnly(hashedPassword) ==
  IF ~hashedPassword.present THEN "PLAIN_TEXT"
  ELSE IF includes(hashedPassword.val, ArgonMarker) THEN "ARGON2"
  ELSE "SHA256"

getPasswordMethod(hashedPassword) ==
  IF ~Truthy(hashedPassword) THEN "PLAIN_TEXT"
  ELSE IF includes(hashedPassword.val, ArgonMarker) THEN "ARGON2"
  ELSE "SHA256"

\* ------------------------------------------------------------------ inputs
Alphabet == {"a", "x"}
Secrets == SeqsUpTo(Alphabet, MaxSecretLen)

\* Salts argon2.hash may draw at run time, and the salt of a configured hash.
Salts == {"s1", "s2"}
ConfigSalt == "s0"

Methods == {"PLAIN_TEXT", "SHA256", "ARGON2"}

\* Strings that are neither a legacy digest nor a decodable argon2 hash.
Malformed ==
  { <<"x">>, <<"$", "x">>, ArgonMarker, <<"x">> \o argon2Hash(<<"a">>, ConfigSalt) }

PasswordArgs == {Undefined} \cup {Some(s) : s \in Secrets} \cup {Some(<<"$", "x">>)}

HashedPasswordArgs ==
  {Undefined, Some(<<>>)}
    \cup {Some(hashLegacy(s)) : s \in Secrets}
    \cup {Some(argon2Hash(s, ConfigSalt)) : s \in Secrets}
    \cup {Some(m) : m \in Malformed}

CookieKeys == {<<>>} \cup Secrets \cup {h.val : h \in HashedPasswordArgs}

\* ------------------------------------------------------------------- state
Idle ==
  [ pc |-> "idle", op |-> "none",
    passwordMethod |-> "PLAIN_TEXT",
    passwordFromRequestBody |-> <<>>,
    cookieKey |-> <<>>,
    passwordFromArgs |-> Undefined,
    hashedPasswordFromArgs |-> Undefined,
    isValid |-> FALSE,
    hashedPassword |-> <<>>,
    threw |-> FALSE,
    method |-> "none",
    hashFailed |-> FALSE,
    issued |-> FALSE,
    loginValid |-> FALSE ]

\* PromisePool's locals when no pool is running.
PoolIdle ==
  [ pc |-> "idle", end |-> 0, concurrency |-> 0, stopOnErr |-> FALSE,
    ind |-> 0, i |-> 0,
    result |-> [k \in {} |-> "unset"],
    started |-> [k \in {} |-> 0],
    runners |-> <<>> ]

Init ==
  /\ calls = [p \in Procs |-> Idle]
  /\ pool = PoolIdle

\* Faulty variant: the arguments live in one module-level slot that calls share.
LocalsShared(p) == calls[1]

\* The parameters and locals a call's continuation closes over.
Locals(p) == calls[p]

\* ------------------------------------------------- handlePasswordValidation
\* Faulty variant: the configured plaintext is compared without the presence test.
plainTextIsValidUnguarded(passwordFromRequestBody, passwordFromArgs) ==
  safeCompare(passwordFromRequestBody, DefaultEmpty(passwordFromArgs))

\* line 259
plainTextIsValid(passwordFromRequestBody, passwordFromArgs) ==
  IF Truthy(passwordFromArgs)
  THEN safeCompare(passwordFromRequestBody, passwordFromArgs.val)
  ELSE FALSE

\* line 267
sha256IsValid(passwordFromRequestBody, hashedPasswordFromArgs) ==
  isHashLegacyMatch(passwordFromRequestBody, OrEmpty(hashedPasswordFromArgs))

\* Faulty variant: the digest is always re-derived from the submitted secret.
sha256HashedPasswordRederived(passwordFromRequestBody, hashedPasswordFromArgs) ==
  hashLegacy(passwordFromRequestBody)

\* line 270
sha256HashedPassword(passwordFromRequestBody, hashedPasswordFromArgs) ==
  IF Truthy(hashedPasswordFromArgs)
  THEN hashedPasswordFromArgs.val
  ELSE hashLegacy(passwordFromRequestBody)

\* line 274
argon2IsValid(passwordFromRequestBody, hashedPasswordFromArgs) ==
  isHashMatch(passwordFromRequestBody, OrEmpty(hashedPasswordFromArgs))

\* Faulty variant: a missing configured hash falls back to hashing the submission.
argon2HashedPasswordFallback(passwordFromRequestBody, hashedPasswordFromArgs) ==
  IF Truthy(hashedPasswordFromArgs)
  THEN hashedPasswordFromArgs.val
  ELSE hashLegacy(passwordFromRequestBody)

\* line 277
argon2HashedPassword(passwordFromRequestBody, hashedPasswordFromArgs) ==
  OrEmpty(hashedPasswordFromArgs)

\* The body of the call up to its first await (or to its return).
LoginCall(m, body, pw, hp) ==
  LET c == [Idle EXCEPT !.op = "login", !.passwordMethod = m,
                        !.passwordFromRequestBody = body,
                        !.passwordFromArgs = pw,
                        !.hashedPasswordFromArgs = hp]
  IN  CASE m = "PLAIN_TEXT" ->
             [c EXCEPT !.isValid = plainTextIsValid(body, pw), !.pc = "awaitHash"]
        [] m = "SHA256" ->
             IF Truthy(hp)
             THEN [c EXCEPT !.isValid = sha256IsValid(body, hp),
                            !.hashedPassword = sha256HashedPassword(body, hp),
                            !.pc = "done"]
             ELSE [c EXCEPT !.isValid = sha256IsValid(body, hp),
                            !.pc = "awaitLegacy"]
        [] m = "ARGON2" -> [c EXCEPT !.pc = "awaitVerify"]
        [] OTHER -> [c EXCEPT !.pc = "done"]

\* A login request arrives: handlePasswordValidation is called.
HandlePasswordValidation(p, inputs) ==
  /\ calls[p].pc = "idle"
  /\ UNCHANGED pool
  /\ \E i \in inputs :
       calls' = [calls EXCEPT ![p] =
         LoginCall(i.passwordMethod, i.passwordFromRequestBody,
                   i.passwordFromArgs, i.hashedPasswordFromArgs)]

\* hash(): argon2.hash resolves with a hash under a fresh salt.
HashResolves(p) ==
  /\ calls[p].pc = "awaitHash"
  /\ UNCHANGED pool
  /\ \E salt \in Salts :
       calls' = [calls EXCEPT
         ![p].hashedPassword = argon2Hash(Locals(p).passwordFromRequestBody, salt),
         ![p].pc = "done"]

\* hash(): argon2.hash rejects; the error is logged and "" is returned.
HashRejects(p) ==
  /\ calls[p].pc = "awaitHash"
  /\ UNCHANGED pool
  /\ calls' = [calls EXCEPT ![p].hashedPassword = <<>>,
                           ![p].hashFailed = TRUE,
                           ![p].pc = "done"]

\* `await hashLegacy(...)` resumes (line 270, no configured hash).
LegacyResumes(p) ==
  /\ calls[p].pc = "awaitLegacy"
  /\ UNCHANGED pool
  /\ calls' = [calls EXCEPT
       ![p].hashedPassword =
          sha256HashedPassword(Locals(p).passwordFromRequestBody,
                               Locals(p).hashedPasswordFromArgs),
       ![p].pc = "done"]

\* ------------------------------------------------------------ isCookieValid
\* Faulty variant: the PLAIN_TEXT cookie is accepted by raw equality.
cookiePlainTextRawEquality(passwordFromArgs, cookieKey) ==
  Returned(safeCompare(cookieKey, DefaultEmpty(passwordFromArgs)))

\* line 304
cookiePlainText(passwordFromArgs, cookieKey) ==
  isHashMatch(DefaultEmpty(passwordFromArgs), cookieKey)

\* line 308
cookieHashed(hashedPasswordFromArgs, cookieKey) ==
  safeCompare(cookieKey, DefaultEmpty(hashedPasswordFromArgs))

CookieCall(c, m, cookie, pw, hp) ==
  LET d == [c EXCEPT !.op = "cookie", !.passwordMethod = m, !.cookieKey = cookie,
                     !.passwordFromArgs = pw, !.hashedPasswordFromArgs = hp,
                     !.isValid = FALSE, !.threw = FALSE]
  IN  CASE m = "PLAIN_TEXT" -> [d EXCEPT !.pc = "awaitVerify"]
        [] m \in {"ARGON2", "SHA256"} ->
             [d EXCEPT !.isValid = cookieHashed(hp, cookie), !.pc = "done"]
        [] OTHER -> [d EXCEPT !.pc = "done"]

\* A request presents an arbitrary cookie.
IsCookieValid(p, inputs) ==
  /\ calls[p].pc = "idle"
  /\ UNCHANGED pool
  /\ \E i \in inputs :
       calls' = [calls EXCEPT ![p] =
         CookieCall(Idle, i.passwordMethod, i.cookieKey,
                    i.passwordFromArgs, i.hashedPasswordFromArgs)]

\* A request presents the hashedPassword a login returned, under the same
\* (static) configuration and method.
IsCookieValidReplay(p) ==
  /\ calls[p].pc = "done"
  /\ UNCHANGED pool
  /\ calls[p].op = "login"
  /\ ~calls[p].threw
  /\ LET c == calls[p]
     IN calls' = [calls EXCEPT ![p] =
          CookieCall([c EXCEPT !.issued = TRUE, !.loginValid = c.isValid],
                     c.passwordMethod, c.hashedPassword,
                     c.passwordFromArgs, c.hashedPasswordFromArgs)]

\* `await isHashMatch(...)` settles: line 274 (login) or line 304 (cookie).
VerifySettles(p) ==
  /\ calls[p].pc = "awaitVerify"
  /\ UNCHANGED pool
  /\ LET c == Locals(p)
         r == IF c.op = "login"
              THEN argon2IsValid(c.passwordFromRequestBody, c.hashedPasswordFromArgs)
              ELSE cookiePlainText(c.passwordFromArgs, c.cookieKey)
     IN calls' =
          IF r.threw
          THEN [calls EXCEPT ![p].threw = TRUE, ![p].pc = "done"]
          ELSE IF c.op = "login"
          THEN [calls EXCEPT
                  ![p].isValid = r.value,
                  ![p].hashedPassword =
                     argon2HashedPassword(c.passwordFromRequestBody,
                                          c.hashedPasswordFromArgs),
                  ![p].pc = "done"]
          ELSE [calls EXCEPT ![p].isValid = r.value, ![p].pc = "done"]

\* -------------------------------------------------------- getPasswordMethod
GetPasswordMethod(p, inputs) ==
  /\ calls[p].pc = "idle"
  /\ UNCHANGED pool
  /\ \E hp \in inputs :
       calls' = [calls EXCEPT ![p] =
         [Idle EXCEPT !.op = "classify", !.hashedPasswordFromArgs = hp,
                      !.method = getPasswordMethod(hp), !.pc = "done"]]

\* The caller consumes the settled promise.
Finish(p) ==
  /\ calls[p].pc = "done"
  /\ UNCHANGED pool
  /\ calls' = [calls EXCEPT ![p] = Idle]

\* -------------------------------------------------------------- PromisePool
\* `ind++` (line 603)
nextInd(ind) == ind + 1

\* One synchronous run of runner() (lines 599-613) up to its await: it takes
\* the next item and starts the worker on it, or finds nothing left and ends.
\* `copyInd` is the runner's own copy `_ind`.
runner(pl) ==
  IF pl.ind < pl.end
  THEN [ pl EXCEPT !.ind = nextInd(pl.ind),
                   !.started[pl.ind] = @ + 1 ]
  ELSE pl

runnerState(pl) ==
  IF pl.ind < pl.end
  THEN [pc |-> "awaiting", copyInd |-> pl.ind]
  ELSE [pc |-> "done", copyInd |-> pl.ind]

InFlight(pl) == {r \in 1..Len(pl.runners) : pl.runners[r].pc = "awaiting"}

\* Faulty variant: the pool waits for the first runner only (a race).
SomeRunnerDone(pl) ==
  \E r \in 1..Len(pl.runners) : pl.runners[r].pc = "done"

\* Promise.all(runners) is fulfilled (line 621).
AllRunnersDone(pl) ==
  \A r \in 1..Len(pl.runners) : pl.runners[r].pc = "done"

\* PromisePool is called (lines 587-596).
PromisePool ==
  /\ pool.pc = "idle"
  /\ UNCHANGED calls
  /\ \E n \in 0..MaxItems, c \in 0..MaxConcurrency, s \in BOOLEAN :
       pool' = [ pc |-> "spawning", end |-> n, concurrency |-> c, stopOnErr |-> s,
                 ind |-> 0, i |-> 0,
                 result |-> [k \in 0..(n - 1) |-> "unset"],
                 started |-> [k \in 0..(n - 1) |-> 0],
                 runners |-> <<>> ]

\* One turn of the spawning loop (lines 617-620): runners.push(runner()).
RunnerSpawn ==
  /\ pool.pc = "spawning"
  /\ pool.i < pool.concurrency
  /\ ~(pool.i >= pool.end)
  /\ UNCHANGED calls
  /\ pool' = [ runner(pool) EXCEPT !.runners = Append(@, runnerState(pool)),
                                   !.i = @ + 1 ]

\* The spawning loop ends; the pool awaits Promise.all(runners).
SpawnEnds ==
  /\ pool.pc = "spawning"
  /\ pool.i >= pool.concurrency \/ pool.i >= pool.end
  /\ UNCHANGED calls
  /\ pool' = [pool EXCEPT !.pc = "awaitAll"]

\* A worker's promise is fulfilled: its result is stored and the runner
\* calls itself (lines 606, 611).
WorkerResolves(r) ==
  /\ pool.pc \notin {"idle", "spawning"}
  /\ r \in InFlight(pool)
  /\ UNCHANGED calls
  /\ LET stored == [pool EXCEPT !.result[pool.runners[r].copyInd] = "value"]
     IN  pool' = [ runner(stored) EXCEPT !.runners[r] = runnerState(stored) ]

\* A worker's promise is rejected (lines 607-611): with stopOnErr the runner
\* rethrows, otherwise the error is stored and the runner calls itself.
WorkerRejects(r) ==
  /\ pool.pc \notin {"idle", "spawning"}
  /\ r \in InFlight(pool)
  /\ UNCHANGED calls
  /\ IF pool.stopOnErr
     THEN pool' = [pool EXCEPT !.runners[r].pc = "threw"]
     ELSE LET stored == [pool EXCEPT !.result[pool.runners[r].copyInd] = "err"]
          IN  pool' = [ runner(stored) EXCEPT !.runners[r] = runnerState(stored) ]

\* Promise.all is fulfilled and the pool returns result (lines 621-622).
PoolResolves ==
  /\ pool.pc = "awaitAll"
  /\ AllRunnersDone(pool)
  /\ UNCHANGED calls
  /\ pool' = [pool EXCEPT !.pc = "resolved"]

\* Promise.all is rejected by the first runner that threw (line 621).
PoolRejects ==
  /\ pool.pc = "awaitAll"
  /\ \E r \in 1..Len(pool.runners) : pool.runners[r].pc = "threw"
  /\ UNCHANGED calls
  /\ pool' = [pool EXCEPT !.pc = "rejected"]

\* The settled pool is dropped once none of its workers is left in flight.
PoolFinish ==
  /\ pool.pc \in {"resolved", "rejected"}
  /\ InFlight(pool) = {}
  /\ UNCHANGED calls
  /\ pool' = PoolIdle

NextPool ==
  \/ PromisePool
  \/ RunnerSpawn
  \/ SpawnEnds
  \/ \E r \in 1..MaxConcurrency : WorkerResolves(r)
  \/ \E r \in 1..MaxConcurrency : WorkerRejects(r)
  \/ PoolResolves
  \/ PoolRejects
  \/ PoolFinish

SpecPool == Init /\ [][NextPool]_vars

\* ---------------------------------------------------------- specifications
\* One caller, one call at a time, over the full input sets.
Caller == 1

LoginInputs ==
  [ passwordMethod : Methods, passwordFromRequestBody : Secrets,
    passwordFromArgs : PasswordArgs, hashedPasswordFromArgs : HashedPasswordArgs ]

CookieInputs ==
  [ passwordMethod : Methods, cookieKey : CookieKeys,
    passwordFromArgs : PasswordArgs, hashedPasswordFromArgs : HashedPasswordArgs ]

Next ==
  \/ HandlePasswordValidation(Caller, LoginInputs)
  \/ HashResolves(Caller)
  \/ HashRejects(Caller)
  \/ LegacyResumes(Caller)
  \/ IsCookieValid(Caller, CookieInputs)
  \/ IsCookieValidReplay(Caller)
  \/ VerifySettles(Caller)
  \/ GetPasswordMethod(Caller, HashedPasswordArgs)
  \/ Finish(Caller)

Spec == Init /\ [][Next]_vars

\* Several calls in flight at once, each under one of a few configurations.
ConcConfigs ==
  { [passwordMethod |-> "PLAIN_TEXT",
     passwordFromArgs |-> Some(<<"a">>), hashedPasswordFromArgs |-> Undefined],
    [passwordMethod |-> "SHA256",
     passwordFromArgs |-> Undefined, hashedPasswordFromArgs |-> Some(hashLegacy(<<"a">>))],
    [passwordMethod |-> "SHA256",
     passwordFromArgs |-> Undefined, hashedPasswordFromArgs |-> Undefined],
    [passwordMethod |-> "ARGON2",
     passwordFromArgs |-> Undefined,
     hashedPasswordFromArgs |-> Some(argon2Hash(<<"a">>, ConfigSalt))] }

ConcLoginInputs ==
  { [passwordMethod |-> k.passwordMethod,
     passwordFromRequestBody |-> body,
     passwordFromArgs |-> k.passwordFromArgs,
     hashedPasswordFromArgs |-> k.hashedPasswordFromArgs] :
       k \in ConcConfigs, body \in {<<"a">>, <<"x">>} }

ConcCookieInputs ==
  { [passwordMethod |-> k.passwordMethod,
     cookieKey |-> cookie,
     passwordFromArgs |-> k.passwordFromArgs,
     hashedPasswordFromArgs |-> k.hashedPasswordFromArgs] :
       k \in ConcConfigs,
       cookie \in {hashLegacy(<<"a">>), argon2Hash(<<"a">>, ConfigSalt), <<"$", "x">>} }

NextConc ==
  \E p \in Procs :
    \/ HandlePasswordValidation(p, ConcLoginInputs)
    \/ HashResolves(p)
    \/ HashRejects(p)
    \/ LegacyResumes(p)
    \/ IsCookieValid(p, ConcCookieInputs)
    \/ VerifySettles(p)
    \/ Finish(p)

SpecConc == Init /\ [][NextConc]_vars

\* ------------------------------------------------------------------ claims
Settled(c) == c.pc = "done"
SettledLogin(c) == c.pc = "done" /\ c.op = "login"
SettledCookie(c) == c.pc = "done" /\ c.op = "cookie"

AllSalts == Salts \cup {ConfigSalt}

\* `s` is the secret the configuration of method `m` stands for.
IsConfiguredSecret(m, s, pw, hp) ==
  CASE m = "PLAIN_TEXT" -> pw.present /\ pw.val = s
    [] m = "SHA256" -> hp.present /\ hp.val = hashLegacy(s)
    [] m = "ARGON2" -> hp.present /\ \E salt \in AllSalts : hp.val = argon2Hash(s, salt)
    [] OTHER -> FALSE

Without(s, i) == SubSeq(s, 1, i - 1) \o SubSeq(s, i + 1, Len(s))

\* `b` is `a` with one character replaced, removed or inserted.
SingleCharMutation(a, b) ==
  /\ a # b
  /\ \/ Len(a) = Len(b) /\ \E i \in 1..Len(a) : Without(a, i) = Without(b, i)
     \/ \E i \in 1..Len(a) : Without(a, i) = b
     \/ \E i \in 1..Len(b) : Without(b, i) = a

\* C1 as stated: under each method the configured secret validates, empty or
\* not, and every secret one character away from it does not.
C1_AsStated ==
  \A p \in Procs :
    LET c == calls[p] IN
    SettledLogin(c) =>
      /\ IsConfiguredSecret(c.passwordMethod, c.passwordFromRequestBody,
                            c.passwordFromArgs, c.hashedPasswordFromArgs)
           => ~c.threw /\ c.isValid
      /\ \A s \in Secrets :
           ( /\ IsConfiguredSecret(c.passwordMethod, s,
                                   c.passwordFromArgs, c.hashedPasswordFromArgs)
             /\ SingleCharMutation(s, c.passwordFromRequestBody) )
           => ~c.threw /\ ~c.isValid

\* C1 amended: under each method a NON-EMPTY submitted secret that is the
\* configured one gives isPasswordValid = true, and every submitted secret one
\* character away from the configured one gives isPasswordValid = false.
C1_ConfiguredSecretValidates ==
  \A p \in Procs :
    LET c == calls[p] IN
    SettledLogin(c) =>
      /\ ( /\ c.passwordFromRequestBody # <<>>
           /\ IsConfiguredSecret(c.passwordMethod, c.passwordFromRequestBody,
                                 c.passwordFromArgs, c.hashedPasswordFromArgs) )
           => ~c.threw /\ c.isValid
      /\ \A s \in Secrets :
           ( /\ IsConfiguredSecret(c.passwordMethod, s,
                                   c.passwordFromArgs, c.hashedPasswordFromArgs)
             /\ SingleCharMutation(s, c.passwordFromRequestBody) )
           => ~c.threw /\ ~c.isValid

C1_Witness ==
  \E p \in Procs :
    /\ SettledLogin(calls[p])
    /\ calls[p].passwordMethod = "ARGON2"
    /\ calls[p].passwordFromRequestBody = <<"a", "x">>
    /\ calls[p].hashedPasswordFromArgs = Some(argon2Hash(<<"a", "x">>, ConfigSalt))
    /\ calls[p].isValid

C3_CookieDispatch ==
  \A p \in Procs :
    LET c == calls[p]
        candidate == IF c.passwordFromArgs.present THEN c.passwordFromArgs.val ELSE <<>>
        reference == IF c.hashedPasswordFromArgs.present
                     THEN c.hashedPasswordFromArgs.val ELSE <<>>
    IN
    SettledCookie(c) =>
      /\ c.passwordMethod = "PLAIN_TEXT" =>
           /\ c.isValid <=>
                /\ candidate # <<>>
                /\ \E salt \in AllSalts : c.cookieKey = argon2Hash(candidate, salt)
           /\ c.cookieKey = candidate => ~c.isValid
      /\ c.passwordMethod \in {"SHA256", "ARGON2"} =>
           /\ ~c.threw
           /\ c.isValid <=> (c.cookieKey = reference)

C3_Witness ==
  \E p \in Procs :
    /\ SettledCookie(calls[p]) /\ ~calls[p].issued
    /\ calls[p].passwordMethod = "PLAIN_TEXT"
    /\ calls[p].passwordFromArgs = Some(<<"x">>)
    /\ calls[p].cookieKey = argon2Hash(<<"x">>, ConfigSalt)
    /\ calls[p].isValid

\* C4 as stated: an empty submitted secret gives isPasswordValid = false under
\* every method and every configuration.
C4_EmptySecretFails ==
  \A p \in Procs :
    (SettledLogin(calls[p]) /\ calls[p].passwordFromRequestBody = <<>>)
      => ~calls[p].isValid

\* C5 as stated: no call ends in an exception, and a failure of the hashing
\* primitive yields an empty hashedPassword.
C5_NothingThrown ==
  \A p \in Procs :
    Settled(calls[p]) =>
      /\ ~calls[p].threw
      /\ calls[p].hashFailed => calls[p].hashedPassword = <<>>

\* C6: getPasswordMethod gives PLAIN_TEXT for an absent or empty input, ARGON2
\* for a non-empty input in which "$argon" occurs at any position, and SHA256
\* for every other non-empty input.
C6_MethodClassification ==
  \A p \in Procs :
    LET c == calls[p]
        h == c.hashedPasswordFromArgs
    IN
    (Settled(c) /\ c.op = "classify") =>
      c.method =
        IF ~h.present \/ h.val = <<>> THEN "PLAIN_TEXT"
        ELSE IF \E i \in 1..Len(h.val) :
                  /\ i + Len(ArgonMarker) - 1 <= Len(h.val)
                  /\ \A j \in 1..Len(ArgonMarker) : h.val[i + j - 1] = ArgonMarker[j]
             THEN "ARGON2"
        ELSE "SHA256"

C6_Witness ==
  \E p \in Procs :
    /\ Settled(calls[p]) /\ calls[p].op = "classify"
    /\ calls[p].hashedPasswordFromArgs.val = <<"x">> \o argon2Hash(<<"a">>, ConfigSalt)
    /\ calls[p].method = "ARGON2"

\* C7 as stated: under PLAIN_TEXT isPasswordValid is true exactly when the
\* configured plaintext is present (not undefined) and equal to the submitted
\* secret.
C7_AsStated ==
  \A p \in Procs :
    LET c == calls[p] IN
    (SettledLogin(c) /\ c.passwordMethod = "PLAIN_TEXT") =>
      /\ ~c.threw
      /\ c.isValid <=>
           (c.passwordFromArgs.present
              /\ c.passwordFromArgs.val = c.passwordFromRequestBody)

\* C7 amended: under PLAIN_TEXT isPasswordValid is true exactly when the
\* configured plaintext is present, NOT EMPTY, and equal to the submitted
\* secret; when it is absent or empty the result is false for every submitted
\* secret.
C7_PlainTextValidity ==
  \A p \in Procs :
    LET c == calls[p] IN
    (SettledLogin(c) /\ c.passwordMethod = "PLAIN_TEXT") =>
      /\ ~c.threw
      /\ c.isValid <=>
           (c.passwordFromArgs.present
              /\ c.passwordFromArgs.val # <<>>
              /\ c.passwordFromArgs.val = c.passwordFromRequestBody)

C7_Witness ==
  \E p \in Procs :
    /\ SettledLogin(calls[p])
    /\ calls[p].passwordMethod = "PLAIN_TEXT"
    /\ calls[p].passwordFromArgs = Some(<<"x", "a">>)
    /\ calls[p].passwordFromRequestBody = <<"x", "a">>
    /\ calls[p].isValid

\* C8 as stated: under SHA256 the returned hashedPassword is the configured
\* hash whenever one is present (not undefined), and hashLegacy(submitted)
\* only when none is present.
C8_AsStated ==
  \A p \in Procs :
    LET c == calls[p] IN
    (SettledLogin(c) /\ c.passwordMethod = "SHA256") =>
      /\ ~c.threw
      /\ c.hashedPassword =
           IF c.hashedPasswordFromArgs.present
           THEN c.hashedPasswordFromArgs.val
           ELSE hashLegacy(c.passwordFromRequestBody)

\* C8 amended: under SHA256 the returned hashedPassword is the configured hash
\* whenever one is present AND NOT EMPTY (echoed whether or not the submitted
\* secret is valid), and is hashLegacy(submitted) when the configured hash is
\* absent or empty.
C8_Sha256HashedPassword ==
  \A p \in Procs :
    LET c == calls[p] IN
    (SettledLogin(c) /\ c.passwordMethod = "SHA256") =>
      /\ ~c.threw
      /\ c.hashedPassword =
           IF c.hashedPasswordFromArgs.present /\ c.hashedPasswordFromArgs.val # <<>>
           THEN c.hashedPasswordFromArgs.val
           ELSE hashLegacy(c.passwordFromRequestBody)

C8_Witness ==
  \E p \in Procs :
    /\ SettledLogin(calls[p])
    /\ calls[p].passwordMethod = "SHA256"
    /\ calls[p].hashedPasswordFromArgs = Some(hashLegacy(<<"a">>))
    /\ calls[p].passwordFromRequestBody = <<"x">>
    /\ ~calls[p].isValid
    /\ calls[p].hashedPassword = hashLegacy(<<"a">>)

\* C9: under ARGON2 a call that returns gives hashedPassword = the configured
\* hash if present and "" otherwise, never a hash of the submitted secret;
\* with no configured hash every submitted secret returns isPasswordValid =
\* false and hashedPassword = "".
C9_Argon2NoFallback ==
  \A p \in Procs :
    LET c == calls[p] IN
    (SettledLogin(c) /\ c.passwordMethod = "ARGON2") =>
      /\ ~c.threw =>
           c.hashedPassword =
             IF c.hashedPasswordFromArgs.present
             THEN c.hashedPasswordFromArgs.val ELSE <<>>
      /\ ~c.hashedPasswordFromArgs.present =>
           ~c.threw /\ ~c.isValid /\ c.hashedPassword = <<>>

C9_Witness ==
  \E p \in Procs :
    /\ SettledLogin(calls[p])
    /\ calls[p].passwordMethod = "ARGON2"
    /\ calls[p].hashedPasswordFromArgs = Undefined
    /\ calls[p].passwordFromRequestBody = <<"a", "x">>
    /\ ~calls[p].isValid /\ calls[p].hashedPassword = <<>>

\* What a call gives when it runs alone on its inputs.
Alone(c) ==
  IF c.op = "login"
  THEN CASE c.passwordMethod = "PLAIN_TEXT" ->
              Returned(plainTextIsValid(c.passwordFromRequestBody, c.passwordFromArgs))
         [] c.passwordMethod = "SHA256" ->
              Returned(sha256IsValid(c.passwordFromRequestBody, c.hashedPasswordFromArgs))
         [] c.passwordMethod = "ARGON2" ->
              argon2IsValid(c.passwordFromRequestBody, c.hashedPasswordFromArgs)
         [] OTHER -> Returned(FALSE)
  ELSE CASE c.passwordMethod = "PLAIN_TEXT" ->
              cookiePlainText(c.passwordFromArgs, c.cookieKey)
         [] c.passwordMethod \in {"SHA256", "ARGON2"} ->
              Returned(cookieHashed(c.hashedPasswordFromArgs, c.cookieKey))
         [] OTHER -> Returned(FALSE)

\* C10: whatever other calls are in flight and however their steps interleave,
\* a settled handlePasswordValidation or isCookieValid call has the validity
\* (or the exception) it has when run alone on the same inputs.
C10_CallsIndependent ==
  \A p \in Procs :
    LET c == calls[p] IN
    (Settled(c) /\ c.op \in {"login", "cookie"}) =>
      [threw |-> c.threw, value |-> c.isValid] = Alone(c)

\* Two calls were suspended at once and one has settled while the other,
\* on different inputs, is still suspended.
C10_Witness ==
  \E p, q \in Procs :
    /\ p # q
    /\ Settled(calls[p]) /\ calls[p].op = "cookie"
    /\ calls[p].passwordMethod = "PLAIN_TEXT" /\ calls[p].isValid
    /\ calls[q].pc = "awaitVerify" /\ calls[q].op = "login"
    /\ calls[q].passwordFromRequestBody = <<"x">>

C12_EmptyCookieRefused ==
  \A p \in Procs :
    LET c == calls[p] IN
    ( /\ SettledCookie(c)
      /\ c.cookieKey = <<>>
      /\ c.passwordMethod = getPasswordMethod(c.hashedPasswordFromArgs) )
    => ~c.threw /\ ~c.isValid

C12_Witness ==
  \E p \in Procs :
    /\ SettledCookie(calls[p]) /\ ~calls[p].issued
    /\ calls[p].cookieKey = <<>>
    /\ calls[p].hashedPasswordFromArgs = Some(hashLegacy(<<"a">>))
    /\ calls[p].passwordMethod = "SHA256"
    /\ ~calls[p].isValid

Min(a, b) == IF a <= b THEN a ELSE b

\* C13: for n items and concurrency c >= 1 with stopOnErr = false, under every
\* order of worker completions no index is ever started twice, never more
\* than min(c, n) workers are in flight, and when the pool resolves every
\* index 0..n-1 has been started exactly once, no worker is still in flight
\* and every result slot is filled.
C13_BoundedPool ==
  (pool.pc # "idle" /\ ~pool.stopOnErr /\ pool.concurrency >= 1) =>
    /\ \A k \in 0..(pool.end - 1) : pool.started[k] <= 1
    /\ Cardinality(InFlight(pool)) <= Min(pool.concurrency, pool.end)
    /\ pool.pc = "resolved" =>
         /\ \A k \in 0..(pool.end - 1) :
              pool.started[k] = 1 /\ pool.result[k] # "unset"
         /\ InFlight(pool) = {}

\* A pool of three items and concurrency two has resolved after an error.
C13_Witness ==
  /\ pool.pc = "resolved"
  /\ ~pool.stopOnErr
  /\ pool.end = 3 /\ pool.concurrency = 2
  /\ pool.result[1] = "err" /\ pool.result[2] = "value"

====
